---- MODULE Spec2Model ----
(***************************************************************************)
(* Cross-superborough ensemble inference of xgb_ensemble.py: main(),       *)
(* load_models(), evaluate() and the closure crossboro_preproc() with its  *)
(* run-scoped caches.  One evaluation run is one behaviour.                *)
(*                                                                         *)
(* Numbers.  Durations are integers.  The float 1e20 that evaluate() uses  *)
(* as the initial minimum is MIN_DURATION_INIT, a value above every sum of *)
(* two predictions of the modelled boosters, as 1e20 is above every sum of *)
(* two trip durations a trained booster returns.  np.sqrt(a / b) is kept   *)
(* as the pair <<a, b>> of its radicand: sqrt is injective on a / b >= 0.  *)
(***************************************************************************)
EXTENDS Integers, Sequences, FiniteSets, TLC

\* ------------------------------------------------------------------ bounds

\* Longest dataset of a run: the stream of (features, output) pairs ends
\* after 0..MaxTrips trips.
MaxTrips == 10

\* The explicit logging interval a run may be given (args.log; 0 = not set).
LogEvery == 5

\* ------------------------------------------------- registry and the store

None == "None"

\* The registry entry of the sentinel code: Python's None where the other
\* codes hold a list of boroughs.  It is told apart with IsNone and never
\* read as a list: iterating or quoting it raises TypeError.
NoneEntry == {None}

IsNone(v) == v = NoneEntry

\* borough_labels.BOROUGHS: borough name -> one-hot id.  The pickup segment
\* of a vector is 6 columns wide (line 196 skips 6 to reach the dropoff
\* segment) and column boro_start_index itself holds a coordinate (line
\* 260), so the ids are 1..6.
BOROUGHS ==
  [b \in {"Bronx", "Brooklyn", "EWR", "Manhattan", "Queens", "Staten Island"} |->
     CASE b = "Bronx" -> 1
       [] b = "Brooklyn" -> 2
       [] b = "EWR" -> 3
       [] b = "Manhattan" -> 4
       [] b = "Queens" -> 5
       [] b = "Staten Island" -> 6]

\* baseline_utils.SUPERBORO_CODE: code -> list of boroughs, None at the
\* sentinel 0 (lines 202, 282: "MEBx", "BkQ", "St" at lines 39-45).
SUPERBORO_FULL ==
  [k \in 0..3 |->
     CASE k = 0 -> NoneEntry
       [] k = 1 -> {"Manhattan", "EWR", "Bronx"}
       [] k = 2 -> {"Brooklyn", "Queens"}
       [] k = 3 -> {"Staten Island"}]

\* A registry that assigns one borough to no superborough: the "no assigned
\* partition" case the Partition Registry provides the sentinel for.
SUPERBORO_PARTIAL ==
  [k \in 0..3 |->
     CASE k = 0 -> NoneEntry
       [] k = 1 -> {"Manhattan", "Bronx"}
       [] k = 2 -> {"Brooklyn", "Queens"}
       [] k = 3 -> {"Staten Island"}]

Registries == {SUPERBORO_FULL, SUPERBORO_PARTIAL}

\* Table locations of the store: LocationID -> Borough.
locations ==
  [z \in {10, 11, 20, 21, 30, 40} |->
     CASE z = 10 -> "Manhattan"
       [] z = 11 -> "Bronx"
       [] z = 20 -> "Brooklyn"
       [] z = 21 -> "Queens"
       [] z = 30 -> "Staten Island"
       [] z = 40 -> "EWR"]

\* extract_all_coordinates(conn, 'coordinates'): LocationID -> (x, y).
coordinates ==
  [z \in DOMAIN locations |->
     CASE z = 10 -> <<1, 1>>
       [] z = 11 -> <<1, 3>>
       [] z = 20 -> <<2, 1>>
       [] z = 21 -> <<3, 2>>
       [] z = 30 -> <<4, 1>>
       [] z = 40 -> <<1, 2>>]

\* Contents the table bridges of the store may have: rows (LocationID1,
\* LocationID2) in stored order.  The first has two bridges between
\* superboroughs 1 and 2 (stored in both orientations), one between 2 and 3
\* and none between 1 and 3; the second has one bridge for every pair, each
\* stored the other way round.
BridgeTables ==
  { << <<10, 20>>, <<21, 11>>, <<20, 30>> >>,
    << <<20, 10>>, <<30, 21>>, <<10, 30>> >> }

\* ------------------------------------------------------- feature vectors

\* A row of the csr matrix: a function from its stored columns to their
\* values (a stored value may be 0 after an assignment).
Val(v, c) == IF c \in DOMAIN v THEN v[c] ELSE 0

SetCol(v, c, x) == [k \in DOMAIN v \cup {c} |-> IF k = c THEN x ELSE v[k]]

RECURSIVE SortedSeq(_)
SortedSeq(S) ==
  IF S = {} THEN <<>>
  ELSE LET m == CHOOSE x \in S : \A y \in S : x <= y
       IN <<m>> \o SortedSeq(S \ {m})

\* features.nonzero()[1]: the columns holding a nonzero value, ascending.
Nonzero(v) == SortedSeq({c \in DOMAIN v : v[c] # 0})

\* seq[i] of Python for a negative i; the index is in range iff
\* Len(seq) + i >= 0.
PyInRange(seq, i) == Len(seq) + i >= 0
PyIndex(seq, i) == seq[Len(seq) + i + 1]

BoroStartIndex(doh, woh) ==
  9 + (IF woh THEN 6 ELSE 0) + (IF doh THEN 182 ELSE 0)

BoroStartFromEnd(loc_id) == -4 + (IF loc_id THEN 0 ELSE 2)

BoroEndFromEnd(loc_id) == -3 + (IF loc_id THEN 0 ELSE 2)

\* Width of one location-id one-hot block (obtain_features).
NumLocations == 265

\* obtain_features.extract_features: the row of a trip from zone pu to zone
\* do under the given flags.  One covariate, the pickup and dropoff
\* coordinates, the two borough bits and, with loc_id, the two zone bits.
MakeFeatures(doh, woh, loc_id, pu, do) ==
  LET B == BoroStartIndex(doh, woh)
      base == (0 :> 1)
              @@ ((B - 3) :> coordinates[pu][1]) @@ ((B - 2) :> coordinates[pu][2])
              @@ ((B - 1) :> coordinates[do][1]) @@ (B :> coordinates[do][2])
              @@ ((B + BOROUGHS[locations[pu]]) :> 1)
              @@ ((B + 6 + BOROUGHS[locations[do]]) :> 1)
  IN IF loc_id
     THEN base @@ ((B + 12 + pu) :> 1) @@ ((B + 12 + NumLocations + do) :> 1)
     ELSE base

\* The trips a dataset is made of: pickup zone, dropoff zone, true duration.
\* EWR to Brooklyn (superborough 1 to 2, or unassigned to 2 under the
\* partial registry), Queens to the Bronx (2 to 1), the Bronx to Staten
\* Island (1 to 3).
TripKinds ==
  << [pu |-> 40, do |-> 20, output |-> 6],
     [pu |-> 21, do |-> 11, output |-> 5],
     [pu |-> 11, do |-> 30, output |-> 4] >>

TripIds == DOMAIN TripKinds

\* ------------------------------------------------------------ the boosters

Abs(x) == IF x < 0 THEN -x ELSE x

\* xgb.Booster.predict of the booster loaded for a superborough, trained on the
\* layout with borough segment at B: a fixed function of the leg's pickup
\* and dropoff coordinates.
Predict(booster, B, leg) ==
  LET d == Abs(Val(leg, B - 3) - Val(leg, B - 1))
           + Abs(Val(leg, B - 2) - Val(leg, B))
  IN CASE booster = "sb1" -> 2 * d + 1
       [] booster = "sb2" -> d + 2
       [] booster = "sb3" -> 3 * d

\* -------------------------------------------------------------- the state

VARIABLES
  SUPERBORO_CODE,          \* the registry the run is configured with
  bridges,                 \* table bridges of the store
  args,                    \* argparse Namespace: log, verbose, doh, woh, loc_id
  pc,                      \* where the run is
  error,                   \* <<exception, function>> that ended the run, or <<>>
  models,                  \* list returned by load_models
  idx,                     \* trips the loop has completed
  total_loss,              \* evaluate's accumulator
  loaded_bridge_data,      \* closure cache: sorted code pair -> rows
  superboro_location_ids,  \* closure cache: code -> set of LocationID
  boro_location_ids,       \* closure cache: borough -> set of LocationID
  dispatched,              \* history: indices i of the calls models[i].predict
  bridge_queries,          \* history: sorted code pair -> bridge queries made
  boro_queries,            \* history: borough -> membership queries made
  console,                 \* lines printed
  log_file,                \* lines of the log file
  loss,                    \* evaluate's return value, <<>> before it returns
  processed,               \* history: how often each trip kind was completed
  predicted,               \* history: trip kind -> min_duration at line 362
  workers,                 \* concurrent callers of the closure: position and locals
  overlapped               \* history: a call began while another was under way

vars ==
  << SUPERBORO_CODE, bridges, args, pc, error, models, idx,
     total_loss, loaded_bridge_data, superboro_location_ids,
     boro_location_ids, dispatched, bridge_queries, boro_queries, console, log_file, loss,
     processed, predicted, workers, overlapped >>

\* A run-scoped cache: a function whose domain is the keys filled so far.
EmptyDict == [k \in {} |-> {}]

Put(d, k, v) == [x \in DOMAIN d \cup {k} |-> IF x = k THEN v ELSE d[x]]

\* ------------------------------------------------------------ store queries

\* The WHERE clause without its second alternative: only rows stored from
\* the start superborough to the end superborough.
BridgeRowMatchesOneWay(row, startBoros, endBoros) ==
  /\ row[1] \in DOMAIN locations
  /\ row[2] \in DOMAIN locations
  /\ locations[row[1]] \in startBoros /\ locations[row[2]] \in endBoros

\* The WHERE clause of connecting_bridges for one row of bridges joined
\* with locations l1, l2.
BridgeRowMatches(row, startBoros, endBoros) ==
  /\ row[1] \in DOMAIN locations
  /\ row[2] \in DOMAIN locations
  /\ \/ locations[row[1]] \in startBoros /\ locations[row[2]] \in endBoros
     \/ locations[row[2]] \in startBoros /\ locations[row[1]] \in endBoros

\* The query without its WHERE clause on the boroughs: every row of bridges.
connecting_bridges_unfiltered(start_superboro_id, end_superboro_id) == bridges

\* connecting_bridges(start_superboro_id, end_superboro_id, conn) for two
\* codes whose registry entries are lists.
connecting_bridges(start_superboro_id, end_superboro_id) ==
  LET Test(row) == BridgeRowMatches(row, SUPERBORO_CODE[start_superboro_id],
                                    SUPERBORO_CODE[end_superboro_id])
  IN SelectSeq(bridges, Test)

get_location_ids_in_boro(boro) == {z \in DOMAIN locations : locations[z] = boro}

\* ------------------------------------------------------- crossboro_preproc

Count(d, k) == IF k \in DOMAIN d THEN d[k] ELSE 0

\* inverted_boro_dict = {v: k for k, v in BOROUGHS.items()}
inverted_boro_dict ==
  [i \in {BOROUGHS[b] : b \in DOMAIN BOROUGHS} |->
     CHOOSE b \in DOMAIN BOROUGHS : BOROUGHS[b] = i]

\* The loop over SUPERBORO_CODE.items(): the code whose list holds boro, 0
\* when none does.
SuperboroOf(boro) ==
  LET hits == {k \in DOMAIN SUPERBORO_CODE :
                 ~IsNone(SUPERBORO_CODE[k]) /\ boro \in SUPERBORO_CODE[k]}
  IN IF hits = {} THEN 0 ELSE CHOOSE k \in hits : \A j \in hits : j <= k

\* The key built from the start code alone.
SortedPairOfStart(a, b) == <<a, a>>

\* tuple(sorted((start_code, end_code)))
SortedPair(a, b) == IF a <= b THEN <<a, b>> ELSE <<b, a>>

\* The boroughs of the list SUPERBORO_CODE[code] missing from the borough
\* cache bli, which one fill of the superborough cache queries.
MissingBoros(code, bli) == SUPERBORO_CODE[code] \ DOMAIN bli

\* The fill without either membership test: every borough of the code is
\* queried on every call.
FillSuperboroNoMemo(code, c) ==
  LET all == SUPERBORO_CODE[code]
      bli2 == [b \in DOMAIN c.bli \cup all |->
                 IF b \in all THEN get_location_ids_in_boro(b) ELSE c.bli[b]]
  IN [sli |-> Put(c.sli, code, UNION {bli2[b] : b \in all}),
      bli |-> bli2,
      bq |-> [b \in DOMAIN c.bq \cup all |->
                IF b \in all THEN Count(c.bq, b) + 1 ELSE c.bq[b]]]

\* Lines 214-221 (223-230): c = [sli, bli, bq] after making sure code is in
\* the superborough cache.
FillSuperboro(code, c) ==
  IF code \in DOMAIN c.sli THEN c
  ELSE LET new == MissingBoros(code, c.bli)
           bli2 == [b \in DOMAIN c.bli \cup new |->
                      IF b \in DOMAIN c.bli THEN c.bli[b]
                      ELSE get_location_ids_in_boro(b)]
           ids == UNION {bli2[b] : b \in SUPERBORO_CODE[code]}
       IN [sli |-> Put(c.sli, code, ids),
           bli |-> bli2,
           bq |-> [b \in DOMAIN c.bq \cup new |->
                     IF b \in new THEN Count(c.bq, b) + 1 ELSE c.bq[b]]]

\* The zones taken in stored order, without the membership test.
OrientBridgeAsStored(bridge, startIds) == <<bridge[1], bridge[2]>>

\* Lines 238-243: the bridge's zones as (start_zone, end_zone).
OrientBridge(bridge, startIds) ==
  IF bridge[1] \in startIds THEN <<bridge[1], bridge[2]>>
  ELSE <<bridge[2], bridge[1]>>

\* Lines 245-251: the borough of the cache bli that holds zone, None when
\* no cached borough does.
BoroOfZone(zone, bli) ==
  LET hits == {k \in DOMAIN bli : zone \in bli[k]}
  IN IF hits = {} THEN None ELSE CHOOSE k \in hits : TRUE

\* first_leg with the pickup bit cleared instead of the dropoff bit.
FirstLegClearsPickup(features, indices, B, end_from_end, bridge_start_boro_id, start_zone) ==
  LET a == SetCol(features, PyIndex(indices, end_from_end - 1), 0)
      b == SetCol(a, bridge_start_boro_id + B + 6, 1)
      c == SetCol(b, B - 1, coordinates[start_zone][1])
  IN SetCol(c, B, coordinates[start_zone][2])

\* first_leg with the bridge's coordinates written over the pickup fields.
FirstLegOverPickupCoords(features, indices, B, end_from_end, bridge_start_boro_id, start_zone) ==
  LET a == SetCol(features, PyIndex(indices, end_from_end), 0)
      b == SetCol(a, bridge_start_boro_id + B + 6, 1)
      c == SetCol(b, B - 3, coordinates[start_zone][1])
  IN SetCol(c, B - 2, coordinates[start_zone][2])

\* first_leg without the assignment that clears the dropoff bit.
FirstLegKeepsDropoffBit(features, indices, B, end_from_end, bridge_start_boro_id, start_zone) ==
  LET b == SetCol(features, bridge_start_boro_id + B + 6, 1)
      c == SetCol(b, B - 1, coordinates[start_zone][1])
  IN SetCol(c, B, coordinates[start_zone][2])

\* Lines 256-260.
FirstLeg(features, indices, B, end_from_end, bridge_start_boro_id, start_zone) ==
  LET a == SetCol(features, PyIndex(indices, end_from_end), 0)
      b == SetCol(a, bridge_start_boro_id + B + 6, 1)
      c == SetCol(b, B - 1, coordinates[start_zone][1])
  IN SetCol(c, B, coordinates[start_zone][2])

\* second_leg with the bridge's borough bit set in the dropoff segment.
SecondLegBitInDropoff(features, indices, B, start_from_end, bridge_end_boro_id, end_zone) ==
  LET a == SetCol(features, PyIndex(indices, start_from_end), 0)
      b == SetCol(a, bridge_end_boro_id + B + 6, 1)
      c == SetCol(b, B - 3, coordinates[end_zone][1])
  IN SetCol(c, B - 2, coordinates[end_zone][2])

\* Lines 262-266.
SecondLeg(features, indices, B, start_from_end, bridge_end_boro_id, end_zone) ==
  LET a == SetCol(features, PyIndex(indices, start_from_end), 0)
      b == SetCol(a, bridge_end_boro_id + B, 1)
      c == SetCol(b, B - 3, coordinates[end_zone][1])
  IN SetCol(c, B - 2, coordinates[end_zone][2])

\* What a call of crossboro_preproc leaves behind when it raises: the
\* exception, and the caches as they were (the exception ends the run, so
\* nothing reads them again).
Raised(exc) ==
  [error |-> exc, rides |-> <<>>,
   lbd |-> loaded_bridge_data, sli |-> superboro_location_ids,
   bli |-> boro_location_ids, brq |-> bridge_queries, boq |-> boro_queries]

\* Lines 232-268 for one bridge: the tuple appended to rides.
Ride(features, indices, doh, woh, loc_id, start_code, end_code, bridge, sli, bli) ==
  LET B == BoroStartIndex(doh, woh)
      zones == OrientBridge(bridge, sli[start_code])
      bridge_start_boro == BoroOfZone(zones[1], bli)
      bridge_end_boro == BoroOfZone(zones[2], bli)
  IN << start_code, end_code,
        FirstLeg(features, indices, B, BoroEndFromEnd(loc_id),
                 BOROUGHS[bridge_start_boro], zones[1]),
        SecondLeg(features, indices, B, BoroStartFromEnd(loc_id),
                  BOROUGHS[bridge_end_boro], zones[2]) >>

\* Whether lines 253-254 raise KeyError for this bridge (BOROUGHS[None]).
RideRaises(start_code, bridge, sli, bli) ==
  LET zones == OrientBridge(bridge, sli[start_code])
  IN \/ BoroOfZone(zones[1], bli) \notin DOMAIN BOROUGHS
     \/ BoroOfZone(zones[2], bli) \notin DOMAIN BOROUGHS

\* crossboro_preproc(features, doh, woh, loc_id) in the current state: the
\* list of rides and the caches after the call, or the exception raised.
crossboro_preproc(features, doh, woh, loc_id) ==
  LET indices == Nonzero(features)
      B == BoroStartIndex(doh, woh)
      sfe == BoroStartFromEnd(loc_id)
      efe == BoroEndFromEnd(loc_id)
  IN
  IF ~PyInRange(indices, sfe) THEN Raised("IndexError")
  ELSE
  LET start_boro_one_hot == PyIndex(indices, sfe) - B
      end_boro_one_hot == PyIndex(indices, efe) - (B + 6)
  IN
  IF \/ start_boro_one_hot \notin DOMAIN inverted_boro_dict
     \/ end_boro_one_hot \notin DOMAIN inverted_boro_dict
  THEN Raised("KeyError")
  ELSE
  LET start_code == SuperboroOf(inverted_boro_dict[start_boro_one_hot])
      end_code == SuperboroOf(inverted_boro_dict[end_boro_one_hot])
      superboro_pair_code == SortedPair(start_code, end_code)
      miss == superboro_pair_code \notin DOMAIN loaded_bridge_data
  IN
  \* SUPERBORO_CODE[0] is None: list_to_quoted_string(None) at lines
  \* 105-106, or else the iteration over None at lines 216 / 225, raises.
  IF \/ miss /\ (IsNone(SUPERBORO_CODE[start_code]) \/ IsNone(SUPERBORO_CODE[end_code]))
     \/ start_code \notin DOMAIN superboro_location_ids /\ IsNone(SUPERBORO_CODE[start_code])
     \/ end_code \notin DOMAIN superboro_location_ids /\ IsNone(SUPERBORO_CODE[end_code])
  THEN Raised("TypeError")
  ELSE
  LET lbd == IF miss
             THEN Put(loaded_bridge_data, superboro_pair_code,
                      connecting_bridges(start_code, end_code))
             ELSE loaded_bridge_data
      brq == IF miss
             THEN Put(bridge_queries, superboro_pair_code,
                      Count(bridge_queries, superboro_pair_code) + 1)
             ELSE bridge_queries
      c0 == [sli |-> superboro_location_ids, bli |-> boro_location_ids,
             bq |-> boro_queries]
      c1 == FillSuperboro(start_code, c0)
      c2 == FillSuperboro(end_code, c1)
      rows == lbd[superboro_pair_code]
  IN
  IF \E i \in DOMAIN rows : RideRaises(start_code, rows[i], c2.sli, c2.bli)
  THEN Raised("KeyError")
  ELSE
  [error |-> "",
   rides |-> [i \in DOMAIN rows |->
                Ride(features, indices, doh, woh, loc_id, start_code, end_code,
                     rows[i], c2.sli, c2.bli)],
   lbd |-> lbd, sli |-> c2.sli, bli |-> c2.bli, brq |-> brq, boq |-> c2.bq]

\* ------------------------------------------------------------------ main

\* The keys of BEST_MODEL_PATHS as (datetime_one_hot, weekdays_one_hot,
\* loc_id): "111", "001", "110".
BEST_MODEL_PATHS ==
  { <<TRUE, TRUE, TRUE>>, <<FALSE, FALSE, TRUE>>, <<TRUE, TRUE, FALSE>> }

\* load_models: None at index 0, then the three boosters.
load_models ==
  [i \in 0..3 |->
     CASE i = 0 -> None [] i = 1 -> "sb1" [] i = 2 -> "sb2" [] i = 3 -> "sb3"]

\* ------------------------------------------------ callers of the closure

\* The threads of a run that calls the closure for two trips at once.  The
\* run of evaluate has none: there the two stay idle.
Workers == {"w1", "w2"}

\* A caller outside crossboro_preproc, its locals unset.
Idle ==
  [pc |-> "idle", t |-> 0, side |-> "", todo |-> <<>>, location_ids |-> {},
   i |-> 0, seen |-> {}]

\* ------------------------------------------------------------- evaluate

\* min_duration = 1e20 (see the note on numbers at the top).
MIN_DURATION_INIT == 1000

\* max_duration = -1
MAX_DURATION_INIT == -1

\* The fixed interval used when args.log is not set.
DEFAULT_BREAKPOINT == 10

\* breakpoint = args.log if args.log > 0 else 10
Breakpoint(log) == IF log > 0 THEN log ELSE DEFAULT_BREAKPOINT

\* The index taken as if the list had no None in front.
ModelIndexNoPadding(sb) == sb - 1

\* models[sb_PU], models[sb_DO]: the list index a superborough code selects.
ModelIndex(sb) == sb

\* min() taken for max(): the larger of the two.
MinAsMax(a, b) == IF a >= b THEN a ELSE b

Min(a, b) == IF a <= b THEN a ELSE b
Max(a, b) == IF a >= b THEN a ELSE b

\* duration = PU_duration + DO_duration for one ride.
RideDuration(ride, B) ==
  Predict(models[ModelIndex(ride[1])], B, ride[3])
  + Predict(models[ModelIndex(ride[2])], B, ride[4])

\* Lines 334-349 from ride i on: acc = [min_duration, max_duration, used,
\* error], used the indices i of the calls models[i].predict so far.  A
\* call on the None of index 0 raises AttributeError and ends the loop.
RECURSIVE Aggregate(_, _, _, _)
Aggregate(rides, i, B, acc) ==
  IF i > Len(rides) THEN acc
  ELSE
  LET iPU == ModelIndex(rides[i][1])
      iDO == ModelIndex(rides[i][2])
  IN
  IF iPU \notin DOMAIN models \/ iDO \notin DOMAIN models
  THEN [acc EXCEPT !.error = "IndexError"]
  ELSE IF models[iPU] = None
  THEN [acc EXCEPT !.used = @ \cup {iPU}, !.error = "AttributeError"]
  ELSE IF models[iDO] = None
  THEN [acc EXCEPT !.used = @ \cup {iPU, iDO}, !.error = "AttributeError"]
  ELSE
  LET duration == RideDuration(rides[i], B)
  IN Aggregate(rides, i + 1, B,
               [min_duration |-> Min(acc.min_duration, duration),
                max_duration |-> Max(acc.max_duration, duration),
                used |-> acc.used \cup {iPU, iDO},
                error |-> ""])

\* The squared error assigned with = where += was meant.
AddLossAssign(total, min_duration, output) ==
  (min_duration - output) * (min_duration - output)

\* total_loss += (min_duration - output)**2
AddLoss(total, min_duration, output) ==
  total + (min_duration - output) * (min_duration - output)

\* The test on the 0-based idx instead of idx + 1.
AtBreakpointZeroBased(done, log) == (done - 1) % Breakpoint(log) = 0

\* (idx+1) % breakpoint == 0, with done = idx + 1.
AtBreakpoint(done, log) == done % Breakpoint(log) = 0

\* outputs.shape[0] of a dataset whose stream ended after trips pairs.
OutputsShape0(trips) == trips

\* np.sqrt(total / count), as its radicand.
Rmse(total, count) == <<total, count>>

\* --------------------------------------------------------------- the run

\* The inputs of a run.  args.verbose > 1 adds a debug line per trip
\* (lines 352-360), which changes nothing else and is left out.
Init ==
  /\ SUPERBORO_CODE \in Registries
  /\ bridges \in BridgeTables
  /\ args \in [log : {0, LogEvery}, verbose : {0, 1},
               doh : BOOLEAN, woh : BOOLEAN, loc_id : BOOLEAN]
  /\ pc = "main"
  /\ error = <<>>
  /\ models = <<>>
  /\ idx = 0
  /\ total_loss = 0
  /\ loaded_bridge_data = EmptyDict
  /\ superboro_location_ids = EmptyDict
  /\ boro_location_ids = EmptyDict
  /\ dispatched = {}
  /\ bridge_queries = EmptyDict
  /\ boro_queries = EmptyDict
  /\ console = <<>>
  /\ log_file = <<>>
  /\ loss = <<>>
  /\ processed = [t \in TripIds |-> 0]
  /\ predicted = EmptyDict
  /\ workers = [w \in Workers |-> Idle]
  /\ overlapped = FALSE

caches == << loaded_bridge_data, superboro_location_ids, boro_location_ids,
             bridge_queries, boro_queries >>

config == << SUPERBORO_CODE, bridges, args >>

threads == << workers, overlapped >>

\* The exception caught and printed, as the try/except of lines 117-120
\* does with a failed query: the run goes on to evaluate.
RaiseSwallowed(exc, at) == pc' = "evaluate" /\ error' = <<exc, at>>

\* An uncaught exception: the run ends with a traceback.
Raise(exc, at) == pc' = "crashed" /\ error' = <<exc, at>>

\* main, lines 462-506: the model paths are looked up under the flags' key
\* and the dataset is loaded and shuffled (features and outputs of one
\* length).
Main ==
  /\ pc = "main"
  /\ IF <<args.doh, args.woh, args.loc_id>> \in BEST_MODEL_PATHS
     THEN pc' = "load_models" /\ error' = error
     ELSE Raise("KeyError", "main")
  /\ UNCHANGED << config, models, idx, total_loss, caches, dispatched,
                  console, log_file, loss, processed, predicted, threads >>

\* main, line 508: load_models(args); xgb.Booster raises when a model file
\* cannot be read.
LoadModels ==
  /\ pc = "load_models"
  /\ \E readable \in BOOLEAN :
       IF readable
       THEN models' = load_models /\ pc' = "evaluate" /\ error' = error
       ELSE models' = models /\ Raise("XGBoostError", "load_models")
  /\ UNCHANGED << config, idx, total_loss, caches, dispatched,
                  console, log_file, loss, processed, predicted, threads >>

\* evaluate, lines 303-328: the accumulator, the closure with its empty
\* caches, and the log file with its header when args.log > 0.
EvaluateSetup ==
  /\ pc = "evaluate"
  /\ pc' = "loop"
  /\ idx' = 0
  /\ total_loss' = 0
  /\ loaded_bridge_data' = EmptyDict
  /\ superboro_location_ids' = EmptyDict
  /\ boro_location_ids' = EmptyDict
  /\ IF args.log > 0
     THEN /\ console' = Append(console, [tag |-> "log_path", n |-> 0, rmse |-> <<>>])
          /\ log_file' = <<[tag |-> "header", n |-> 0, rmse |-> <<>>]>>
     ELSE UNCHANGED << console, log_file >>
  /\ UNCHANGED << config, error, models, dispatched, bridge_queries,
                  boro_queries, loss, processed, predicted, threads >>

\* The row of trip kind t under the run's flags.
Features(t) ==
  MakeFeatures(args.doh, args.woh, args.loc_id, TripKinds[t].pu, TripKinds[t].do)

\* One iteration of the loop of evaluate, lines 331-371, on the next trip
\* of the dataset.
ProcessTrip ==
  /\ pc = "loop"
  /\ idx < MaxTrips
  /\ \E t \in TripIds :
       \E r \in {crossboro_preproc(Features(t), args.doh, args.woh, args.loc_id)} :
       \E a \in {Aggregate(r.rides, 1, BoroStartIndex(args.doh, args.woh),
                            [min_duration |-> MIN_DURATION_INIT,
                             max_duration |-> MAX_DURATION_INIT,
                             used |-> {}, error |-> ""])} :
       IF r.error # ""
       THEN /\ Raise(r.error, "crossboro_preproc")
            /\ UNCHANGED << idx, total_loss, caches, dispatched, console,
                            log_file, processed, predicted >>
       ELSE
       /\ loaded_bridge_data' = r.lbd
       /\ superboro_location_ids' = r.sli
       /\ boro_location_ids' = r.bli
       /\ bridge_queries' = r.brq
       /\ boro_queries' = r.boq
       /\ dispatched' = dispatched \cup a.used
       /\ IF a.error # ""
          THEN /\ Raise(a.error, "evaluate")
               /\ UNCHANGED << idx, total_loss, console, log_file, processed,
                               predicted >>
          ELSE
          /\ pc' = pc
          /\ error' = error
          /\ idx' = idx + 1
          /\ total_loss' = AddLoss(total_loss, a.min_duration, TripKinds[t].output)
          /\ processed' = [processed EXCEPT ![t] = @ + 1]
          /\ predicted' = Put(predicted, t, a.min_duration)
          /\ IF AtBreakpoint(idx + 1, args.log)
             THEN /\ console' =
                       IF args.verbose > 0
                       THEN Append(console,
                                   [tag |-> "running", n |-> idx + 1,
                                    rmse |-> Rmse(total_loss', idx + 1)])
                       ELSE console
                  /\ log_file' =
                       IF args.log > 0
                       THEN Append(log_file,
                                   [tag |-> "idx", n |-> idx + 1,
                                    rmse |-> Rmse(total_loss', idx + 1)])
                       ELSE log_file
             ELSE UNCHANGED << console, log_file >>
  /\ UNCHANGED << config, models, loss, threads >>

\* evaluate, line 373, once zip(features, outputs) is exhausted: return
\* np.sqrt(total_loss / outputs.shape[0]), outputs.shape[0] being the idx
\* trips the loop went through; main (line 520) prints the loss and ends.
\* With no trip both operands of the division are the Python int 0 and it
\* raises.
Return ==
  /\ pc = "loop"
  /\ IF OutputsShape0(idx) = 0
     THEN Raise("ZeroDivisionError", "evaluate") /\ UNCHANGED << loss, console >>
     ELSE /\ pc' = "done"
          /\ error' = error
          /\ loss' = Rmse(total_loss, OutputsShape0(idx))
          /\ console' = Append(console, [tag |-> "loss", n |-> idx, rmse |-> loss'])
  /\ UNCHANGED << config, models, idx, total_loss, caches, dispatched,
                  log_file, processed, predicted, threads >>

Next ==
  \/ Main
  \/ LoadModels
  \/ EvaluateSetup
  \/ ProcessTrip
  \/ Return

Spec == Init /\ [][Next]_vars

\* ----------------------------------------------------- reading the store

\* The superborough codes of trip kind t under the registry.
StartCode(t) == SuperboroOf(locations[TripKinds[t].pu])
EndCode(t) == SuperboroOf(locations[TripKinds[t].do])

Assigned(t) == StartCode(t) # 0 /\ EndCode(t) # 0

\* The bridges the store holds between the two superboroughs of trip t.
StoreBridges(t) == connecting_bridges(StartCode(t), EndCode(t))

\* Trip t has N = 0 candidate bridges.
NoRoute(t) == Assigned(t) /\ StoreBridges(t) = <<>>

RECURSIVE SumOver(_, _)
SumOver(f, S) ==
  IF S = {} THEN 0
  ELSE LET x == CHOOSE y \in S : TRUE IN f[x] + SumOver(f, S \ {x})

\* (predicted duration - true duration)^2 of a completed trip kind.
SquaredError(t) ==
  (predicted[t] - TripKinds[t].output) * (predicted[t] - TripKinds[t].output)

\* The completed trips of the kinds in S: their number, and the sum of
\* their squared errors.
CountOf(S) == SumOver(processed, S)
LossOf(S) ==
  SumOver([t \in S |-> processed[t] * SquaredError(t)], S)

\* duration(bridge) of every candidate bridge of a completed trip kind t,
\* from the legs the Leg Synthesizer returns for it in this state.
CandidateRides(t) ==
  crossboro_preproc(Features(t), args.doh, args.woh, args.loc_id).rides

CandidateDurations(t) ==
  LET rides == CandidateRides(t)
  IN {RideDuration(rides[i], BoroStartIndex(args.doh, args.woh)) : i \in DOMAIN rides}

\* ------------------------------------------------------------------ claims

\* C1: a trip with N = 0 candidate bridges gets the unroutable outcome and
\* never a numeric predicted duration.  Stated as the claim has it, under
\* the registry that assigns every borough: the value line 362 folds in for
\* such a trip is not a number.
C1_UnroutableNeverNumeric ==
  SUPERBORO_CODE = SUPERBORO_FULL =>
    \A t \in DOMAIN predicted : NoRoute(t) => predicted[t] \notin Int

\* C2: the accumulated squared error and the RMSE denominator cover exactly
\* the routable trips.  Stated as the claim has it, under the registry that
\* assigns every borough, on the value evaluate returns for a dataset with
\* at least one routable trip.
C2_RmseOverRoutableOnly ==
  LET routable == {t \in DOMAIN predicted : ~NoRoute(t)}
  IN SUPERBORO_CODE = SUPERBORO_FULL /\ pc = "done" /\ CountOf(routable) > 0 =>
       loss = Rmse(LossOf(routable), CountOf(routable))

\* C3: for a trip with at least one candidate bridge the predicted duration
\* is <= duration(bridge) of every candidate bridge and equals it for one
\* of them; with exactly one bridge it is that bridge's duration.
C3_MinimumOverBridges ==
  \A t \in DOMAIN predicted :
    \A rides \in {CandidateRides(t)}, D \in {CandidateDurations(t)} :
      D # {} =>
        /\ predicted[t] \in D
        /\ \A d \in D : predicted[t] <= d
        /\ Len(rides) = 1 =>
             predicted[t] = RideDuration(rides[1], BoroStartIndex(args.doh, args.woh))

\* A completed trip with two candidate bridges of different durations, the
\* later bridge the shorter one.
C3_Witness ==
  \E t \in DOMAIN predicted :
    /\ Len(CandidateRides(t)) = 2
    /\ RideDuration(CandidateRides(t)[2], BoroStartIndex(args.doh, args.woh))
         < RideDuration(CandidateRides(t)[1], BoroStartIndex(args.doh, args.woh))
    /\ predicted[t] < MIN_DURATION_INIT

\* The exceptions a single trip raises inside the loop of evaluate.
TripErrors ==
  { <<"IndexError", "crossboro_preproc">>, <<"KeyError", "crossboro_preproc">>,
    <<"TypeError", "crossboro_preproc">>, <<"AttributeError", "evaluate">>,
    <<"IndexError", "evaluate">> }

\* C4: one bad trip never aborts the evaluation loop.  Stated as the claim
\* has it: no run ends in an exception raised while a trip is processed.
C4_TripErrorNeverAborts == pc = "crashed" => error \notin TripErrors

\* C5: a trip whose pickup or dropoff borough maps to no superborough (its
\* code stays at the sentinel 0) is skipped and the run does not crash.
\* Stated as the claim has it: no run ends in the exception the None entry
\* of the sentinel raises in crossboro_preproc.
C5_UnassignedTripIsSkipped ==
  error # <<"TypeError", "crossboro_preproc">>

\* C6: the sentinel code 0, whose slot of models is None, is never the
\* index of a predict call: every call models[i].predict has i in 1..3.
C6_SentinelNeverDispatched == dispatched \subseteq 1..3

\* Legs have been dispatched to every booster.
C6_Witness == dispatched = {1, 2, 3}

\* C7: a dataset of 0 trips is rejected before any evaluation work and
\* never reaches the division of line 373.  Stated as the claim has it: no
\* run ends in the division by the zero count.
C7_EmptyDatasetRejectedUpFront ==
  SUPERBORO_CODE = SUPERBORO_FULL => error # <<"ZeroDivisionError", "evaluate">>

\* C8: the final metric is sqrt(accumulatedSquaredError / totalCount), the
\* accumulator being the sum over the processed trips of (predicted
\* duration - true duration)^2, from 0, and totalCount the number of trips
\* the loop processed, each once.
C8_FinalMetric ==
  /\ pc \in {"loop", "done", "crashed"} /\ error \notin { <<"KeyError", "main">>,
                                                          <<"XGBoostError", "load_models">> }
       => /\ total_loss = LossOf(DOMAIN predicted)
          /\ idx = CountOf(TripIds)
  /\ pc = "done" => loss = Rmse(LossOf(DOMAIN predicted), CountOf(TripIds))

\* A run has returned its loss over more than three trips of three kinds.
C8_Witness ==
  pc = "done" /\ DOMAIN predicted = TripIds /\ idx > 3 /\ loss = Rmse(total_loss, idx)

\* The 1-based positions of the checkpoints an observer holds, in order.
CheckpointPositions(lines, tag) ==
  LET IsCheckpoint(l) == l.tag = tag
      kept == SelectSeq(lines, IsCheckpoint)
  IN [i \in DOMAIN kept |-> kept[i].n]

\* <<k, 2k, ...>> up to done.
MultiplesUpTo(k, done) == [i \in 1..(done \div k) |-> i * k]

\* The checkpoints just written report the RMSE over the trips so far.
CheckpointsReportRmseSoFar(lines, tag) ==
  \A i \in DOMAIN lines :
    lines[i].tag = tag /\ lines[i].n = idx => lines[i].rmse = <<total_loss, idx>>

\* C9 as the claim has it: after every trip whose 1-based position is a
\* multiple of K (the logging interval when > 0, else 10) a checkpoint has
\* been emitted to the console or to the log.
C9_CheckpointEveryK ==
  LET K == IF args.log > 0 THEN args.log ELSE 10
  IN \A m \in 1..idx :
       m % K = 0 =>
         \/ m \in {console[i].n : i \in {j \in DOMAIN console : console[j].tag = "running"}}
         \/ m \in {log_file[i].n : i \in {j \in DOMAIN log_file : log_file[j].tag = "idx"}}

\* C9, amended: the checkpoints are emitted after exactly the trips whose
\* 1-based position is a multiple of K (the logging interval when > 0, else
\* 10), to the console only when verbose > 0 and to the log only when the
\* logging interval is > 0; with neither, no checkpoint is emitted.  Each
\* checkpoint reports the RMSE over the trips processed so far.
C9_CheckpointsWhenObserved ==
  LET K == IF args.log > 0 THEN args.log ELSE 10
  IN /\ CheckpointPositions(console, "running") =
          IF args.verbose > 0 THEN MultiplesUpTo(K, idx) ELSE <<>>
     /\ CheckpointPositions(log_file, "idx") =
          IF args.log > 0 THEN MultiplesUpTo(K, idx) ELSE <<>>
     /\ CheckpointsReportRmseSoFar(console, "running")
     /\ CheckpointsReportRmseSoFar(log_file, "idx")

\* Two checkpoints have gone to the console and to the log.
C9_Witness ==
  /\ args.log > 0
  /\ args.verbose > 0
  /\ Len(CheckpointPositions(console, "running")) = 2
  /\ Len(CheckpointPositions(log_file, "idx")) = 2

\* bridgesBetween(A, B): the rows a trip from superborough A to B iterates
\* over in this state (lines 210-212, 233): the cached rows of the sorted
\* pair, queried on a miss.
BridgesBetween(A, B) ==
  IF SortedPair(A, B) \in DOMAIN loaded_bridge_data
  THEN loaded_bridge_data[SortedPair(A, B)]
  ELSE connecting_bridges(A, B)

\* C10: bridgesBetween(A, B) = bridgesBetween(B, A) for all superborough
\* codes, whichever direction filled the cache: a cached entry is what the
\* store returns for the pair in either direction.
C10_PairOrderIndependence ==
  /\ \A A \in 1..3 : \A B \in 1..3 : BridgesBetween(A, B) = BridgesBetween(B, A)
  /\ \A key \in DOMAIN loaded_bridge_data :
       /\ loaded_bridge_data[key] = connecting_bridges(key[1], key[2])
       /\ loaded_bridge_data[key] = connecting_bridges(key[2], key[1])

\* Trips of both directions of the pair (1, 2) have been processed on one
\* query of the store, which returned two bridges.
C10_Witness ==
  /\ StartCode(1) = 1 /\ EndCode(1) = 2 /\ processed[1] > 0
  /\ StartCode(2) = 2 /\ EndCode(2) = 1 /\ processed[2] > 0
  /\ <<1, 2>> \in DOMAIN loaded_bridge_data
  /\ Len(loaded_bridge_data[<<1, 2>>]) = 2
  /\ bridge_queries[<<1, 2>>] = 1

\* The zones of superborough code, read from table locations.
ZonesOf(code) ==
  {z \in DOMAIN locations : locations[z] \in SUPERBORO_CODE[code]}

\* No row of table bridges has one zone in each of the two superboroughs
\* of trip t.
NoBridgeConnects(t) ==
  /\ Assigned(t)
  /\ \A i \in DOMAIN bridges :
       ~ \/ bridges[i][1] \in ZonesOf(StartCode(t)) /\ bridges[i][2] \in ZonesOf(EndCode(t))
         \/ bridges[i][2] \in ZonesOf(StartCode(t)) /\ bridges[i][1] \in ZonesOf(EndCode(t))

\* C11: when no bridges connect the two superboroughs of a trip, the
\* bridges returned for the pair are the empty sequence and the Leg
\* Synthesizer returns zero rides, without raising: the trip is completed
\* and the loop goes on.
C11_NoBridgesIsEmptyNotError ==
  \A t \in TripIds :
    NoBridgeConnects(t) =>
      /\ connecting_bridges(StartCode(t), EndCode(t)) = <<>>
      /\ BridgesBetween(StartCode(t), EndCode(t)) = <<>>
      /\ pc = "loop" =>
           /\ crossboro_preproc(Features(t), args.doh, args.woh, args.loc_id).error = ""
           /\ CandidateRides(t) = <<>>

\* A trip between two superboroughs that no bridge connects has been
\* completed, on an empty cached entry, and the loop is still running.
C11_Witness ==
  \E t \in DOMAIN predicted :
    /\ NoBridgeConnects(t)
    /\ loaded_bridge_data[SortedPair(StartCode(t), EndCode(t))] = <<>>
    /\ pc = "loop"
    /\ idx > 1

\* ------------------------------------------------------ the legs of a trip

\* The rides the loop of evaluate gets for a completed trip kind t when it
\* calls the closure in this state; none once the loop is over.
LoopRides(t) == IF pc = "loop" THEN CandidateRides(t) ELSE <<>>

\* Lines 194, 196: the one-hot ids read off a row under the flags.
DecodeStartBoro(v, doh, woh, loc_id) ==
  PyIndex(Nonzero(v), BoroStartFromEnd(loc_id)) - BoroStartIndex(doh, woh)

DecodeEndBoro(v, doh, woh, loc_id) ==
  PyIndex(Nonzero(v), BoroEndFromEnd(loc_id)) - (BoroStartIndex(doh, woh) + 6)

Zones == DOMAIN locations

\* first_leg and second_leg of the row of a trip pu -> do under the flags,
\* for a bridge whose start (end) zone is zone.
LegOne(doh, woh, loc_id, pu, do, zone) ==
  LET f == MakeFeatures(doh, woh, loc_id, pu, do)
  IN FirstLeg(f, Nonzero(f), BoroStartIndex(doh, woh), BoroEndFromEnd(loc_id),
              BOROUGHS[locations[zone]], zone)

LegTwo(doh, woh, loc_id, pu, do, zone) ==
  LET f == MakeFeatures(doh, woh, loc_id, pu, do)
  IN SecondLeg(f, Nonzero(f), BoroStartIndex(doh, woh), BoroStartFromEnd(loc_id),
               BOROUGHS[locations[zone]], zone)

\* Every flag combination, every trip between two zones and every zone a
\* bridge may start or end at: leg1 decodes to the pickup borough of the
\* input and leg2 to its dropoff borough.
C12_EveryFlagCombination ==
  \A doh \in BOOLEAN, woh \in BOOLEAN, loc_id \in BOOLEAN :
    \A pu \in Zones, do \in Zones, zone \in Zones :
      LET f == MakeFeatures(doh, woh, loc_id, pu, do)
      IN /\ DecodeStartBoro(f, doh, woh, loc_id) = BOROUGHS[locations[pu]]
         /\ DecodeEndBoro(f, doh, woh, loc_id) = BOROUGHS[locations[do]]
         /\ DecodeStartBoro(LegOne(doh, woh, loc_id, pu, do, zone), doh, woh, loc_id)
              = DecodeStartBoro(f, doh, woh, loc_id)
         /\ DecodeEndBoro(LegTwo(doh, woh, loc_id, pu, do, zone), doh, woh, loc_id)
              = DecodeEndBoro(f, doh, woh, loc_id)

\* C12: decoding the borough bits of a synthesized leg recovers the
\* parent's bit on the unmodified endpoint: leg1 decodes to the pickup
\* borough of the input and leg2 to its dropoff borough, for the legs the
\* loop builds for its trips and for every flag combination.
C12_DecodeRoundTrip ==
  /\ \A t \in DOMAIN predicted :
       \A f \in {Features(t)}, rides \in {LoopRides(t)} :
          \A i \in DOMAIN rides :
            /\ DecodeStartBoro(rides[i][3], args.doh, args.woh, args.loc_id)
                 = DecodeStartBoro(f, args.doh, args.woh, args.loc_id)
            /\ DecodeStartBoro(f, args.doh, args.woh, args.loc_id)
                 = BOROUGHS[locations[TripKinds[t].pu]]
            /\ DecodeEndBoro(rides[i][4], args.doh, args.woh, args.loc_id)
                 = DecodeEndBoro(f, args.doh, args.woh, args.loc_id)
            /\ DecodeEndBoro(f, args.doh, args.woh, args.loc_id)
                 = BOROUGHS[locations[TripKinds[t].do]]
  /\ C12_EveryFlagCombination

\* Legs have been built for a completed trip over two bridges, on rows
\* with the zone bits (location ids one-hot) behind the borough bits.
C12_Witness ==
  pc = "loop" /\ \E t \in DOMAIN predicted :
    /\ args.loc_id
    /\ Len(CandidateRides(t)) = 2
    /\ CandidateRides(t)[1][3] # Features(t)
    /\ CandidateRides(t)[1][4] # Features(t)

\* ------------------------------------------------------------- the models

\* No trip has been touched: nothing processed, dispatched, cached or queried.
NoTripTouched ==
  /\ idx = 0
  /\ processed = [t \in TripIds |-> 0]
  /\ predicted = EmptyDict
  /\ dispatched = {}
  /\ loaded_bridge_data = EmptyDict
  /\ bridge_queries = EmptyDict
  /\ boro_queries = EmptyDict

\* The models are in place whenever the loop runs or has run, and a failed
\* load ends the run with no trip touched.
ModelsHeldForTheLoop ==
  /\ pc \in {"loop", "done"} => models = load_models
  /\ ~NoTripTouched => models = load_models
  /\ error = <<"XGBoostError", "load_models">> =>
       pc = "crashed" /\ models = <<>> /\ NoTripTouched

\* The list models is assigned once, from the unloaded state and before
\* any trip, and no step of the loop assigns it.
ModelsLoadedOnce ==
  /\ models' # models =>
       models = <<>> /\ models' = load_models /\ pc = "load_models" /\ NoTripTouched
  /\ pc = "loop" => models' = models
  /\ processed' # processed => models = load_models /\ models' = models

\* C13: all per-superborough models are loaded once, before the loop
\* processes its first trip; if a model file cannot be loaded the run fails
\* at startup with no trip processed; no model is loaded or replaced while
\* trips are being processed.
C13_ModelsLoadedOnceBeforeLoop ==
  []ModelsHeldForTheLoop /\ [][ModelsLoadedOnce]_vars

\* A run has processed trips of every kind on the models loaded at startup
\* and returned.
C13_Witness ==
  /\ pc = "done"
  /\ models = load_models
  /\ \A t \in TripIds : processed[t] > 0
  /\ dispatched = {1, 2, 3}
  /\ idx > 3

\* --------------------------------------------------- the order of the trips

\* The region caches as a first call of crossboro_preproc for trip t
\* leaves them, from the empty caches of crossboro_preproc_setup.
FirstCallCaches(t) ==
  FillSuperboro(EndCode(t),
    FillSuperboro(StartCode(t),
      [sli |-> EmptyDict, bli |-> EmptyDict, bq |-> EmptyDict]))

\* The rides crossboro_preproc returns for trip t when t is the first trip
\* of the run: bridges from the store, caches filled by this call.
FirstCallRides(t) ==
  LET rows == StoreBridges(t)
      c == FirstCallCaches(t)
      f == Features(t)
  IN [i \in DOMAIN rows |->
        Ride(f, Nonzero(f), args.doh, args.woh, args.loc_id,
             StartCode(t), EndCode(t), rows[i], c.sli, c.bli)]

\* min_duration of trip t when t is the first trip of the run.
FirstCallPrediction(t) ==
  Aggregate(FirstCallRides(t), 1, BoroStartIndex(args.doh, args.woh),
            [min_duration |-> MIN_DURATION_INIT, max_duration |-> MAX_DURATION_INIT,
             used |-> {}, error |-> ""]).min_duration

\* The accumulated squared error of a dataset with processed[t] trips of
\* each kind t, each trip predicted as if it were the first of the run.
LossOfBag(first) ==
  SumOver([t \in DOMAIN first |->
             processed[t] * (first[t] - TripKinds[t].output)
                          * (first[t] - TripKinds[t].output)],
          DOMAIN first)

\* C14: the final RMSE is the same for every permutation of the trips of a
\* dataset: every trip is predicted as it would be as the first trip of
\* the run, whatever the earlier trips left in the caches, and the value
\* returned depends on the dataset only as a bag of trips.
C14_OrderIndependentRmse ==
  \A first \in {[t \in DOMAIN predicted |-> FirstCallPrediction(t)]} :
    /\ predicted = first
    /\ pc \in {"loop", "done"} => total_loss = LossOfBag(first)
    /\ pc = "done" => loss = Rmse(LossOfBag(first), CountOf(TripIds))

\* A run over trips of every kind has returned: the trips of both
\* directions of the pair (1, 2) were served by one query of the store, so
\* those after the first ran on cache entries an earlier trip had filled.
C14_Witness ==
  /\ pc = "done"
  /\ \A t \in TripIds : processed[t] > 0 /\ Assigned(t)
  /\ SortedPair(StartCode(1), EndCode(1)) = SortedPair(StartCode(2), EndCode(2))
  /\ bridge_queries[SortedPair(StartCode(1), EndCode(1))] = 1
  /\ processed[1] + processed[2] > 2
  /\ predicted[1] # predicted[2]

\* The zone of a bridge row that lies in superborough code.
ZoneIn(row, code) == CHOOSE z \in {row[1], row[2]} : z \in ZonesOf(code)

\* The rows the rides of a completed trip t were built from.
RowsOf(t) == loaded_bridge_data[SortedPair(StartCode(t), EndCode(t))]

\* leg is f with one endpoint rewritten: outside the columns changed it
\* equals f, the borough bit oldBit of the endpoint is cleared, the bit
\* newBit is set, and the coordinate fields xCol, xCol + 1 hold xy.
EndpointRewritten(f, leg, oldBit, newBit, xCol, xy) ==
  /\ \A c \in (DOMAIN f \cup DOMAIN leg) \ {oldBit, newBit, xCol, xCol + 1} :
       Val(leg, c) = Val(f, c)
  /\ oldBit # newBit => Val(f, oldBit) = 1 /\ Val(leg, oldBit) = 0
  /\ Val(leg, newBit) = 1
  /\ <<Val(leg, xCol), Val(leg, xCol + 1)>> = xy

\* C15: for every candidate bridge, leg1 is a copy of the input that
\* differs from it only in the dropoff endpoint: the dropoff-borough bit is
\* cleared, the bit of the bridge-start zone's borough is set in the
\* dropoff segment, the two dropoff coordinate fields hold the bridge-start
\* zone's coordinates; the pickup coordinates, the pickup-borough bit and
\* every other position are the input's.
C15_LegOneRewritesDropoffOnly ==
  \A t \in DOMAIN predicted :
    \A f \in {Features(t)}, rides \in {LoopRides(t)}, B \in {BoroStartIndex(args.doh, args.woh)} :
      /\ pc = "loop" => Len(rides) = Len(RowsOf(t))
      /\ \A i \in DOMAIN rides :
           LET start_zone == ZoneIn(RowsOf(t)[i], StartCode(t))
           IN /\ EndpointRewritten(f, rides[i][3],
                                   B + 6 + BOROUGHS[locations[TripKinds[t].do]],
                                   B + 6 + BOROUGHS[locations[start_zone]],
                                   B - 1, coordinates[start_zone])
              /\ <<Val(rides[i][3], B - 3), Val(rides[i][3], B - 2)>>
                   = coordinates[TripKinds[t].pu]
              /\ Val(rides[i][3], B + BOROUGHS[locations[TripKinds[t].pu]]) = 1

\* A completed trip has two candidate bridges whose start zones lie in
\* different boroughs of the start superborough, and its first legs differ.
C15_Witness ==
  pc = "loop" /\ \E t \in DOMAIN predicted :
    /\ Len(RowsOf(t)) = 2
    /\ locations[ZoneIn(RowsOf(t)[1], StartCode(t))]
         # locations[ZoneIn(RowsOf(t)[2], StartCode(t))]
    /\ CandidateRides(t)[1][3] # CandidateRides(t)[2][3]
    /\ CandidateRides(t)[1][3] # Features(t)

\* C16: for every candidate bridge, leg2 is a copy of the input that
\* differs from it only in the pickup endpoint: the pickup-borough bit is
\* cleared, the bit of the bridge-end zone's borough is set in the pickup
\* segment, the two pickup coordinate fields hold the bridge-end zone's
\* coordinates; the dropoff coordinates, the dropoff-borough bit and every
\* other position are the input's.
C16_LegTwoRewritesPickupOnly ==
  \A t \in DOMAIN predicted :
    \A f \in {Features(t)}, rides \in {LoopRides(t)}, B \in {BoroStartIndex(args.doh, args.woh)} :
      /\ pc = "loop" => Len(rides) = Len(RowsOf(t))
      /\ \A i \in DOMAIN rides :
           LET end_zone == ZoneIn(RowsOf(t)[i], EndCode(t))
           IN /\ EndpointRewritten(f, rides[i][4],
                                   B + BOROUGHS[locations[TripKinds[t].pu]],
                                   B + BOROUGHS[locations[end_zone]],
                                   B - 3, coordinates[end_zone])
              /\ <<Val(rides[i][4], B - 1), Val(rides[i][4], B)>>
                   = coordinates[TripKinds[t].do]
              /\ Val(rides[i][4], B + 6 + BOROUGHS[locations[TripKinds[t].do]]) = 1

\* A completed trip has two candidate bridges whose end zones lie in
\* different boroughs of the end superborough, and its second legs differ.
C16_Witness ==
  pc = "loop" /\ \E t \in DOMAIN predicted :
    /\ Len(RowsOf(t)) = 2
    /\ locations[ZoneIn(RowsOf(t)[1], EndCode(t))]
         # locations[ZoneIn(RowsOf(t)[2], EndCode(t))]
    /\ CandidateRides(t)[1][4] # CandidateRides(t)[2][4]
    /\ CandidateRides(t)[2][4] # Features(t)

\* C17: for every trip and every bridge returned for its superborough
\* pair, the zone chosen as bridge start lies in the trip's start
\* superborough and the zone chosen as bridge end in its end superborough,
\* whichever way round the row is stored and whichever direction of the
\* pair filled the cache; the legs carry the boroughs of these zones.
C17_BridgeOrientedAlongTrip ==
  \A t \in DOMAIN predicted :
    \A rides \in {LoopRides(t)} :
      /\ pc = "loop" => Len(rides) = Len(RowsOf(t))
      /\ \A i \in DOMAIN rides :
          LET zones == OrientBridge(RowsOf(t)[i], superboro_location_ids[StartCode(t)])
          IN /\ zones[1] \in ZonesOf(StartCode(t))
             /\ zones[2] \in ZonesOf(EndCode(t))
             /\ {zones[1], zones[2]} = {RowsOf(t)[i][1], RowsOf(t)[i][2]}
             /\ DecodeEndBoro(rides[i][3], args.doh, args.woh, args.loc_id)
                  = BOROUGHS[locations[zones[1]]]
             /\ DecodeStartBoro(rides[i][4], args.doh, args.woh, args.loc_id)
                  = BOROUGHS[locations[zones[2]]]

\* Trips of both directions of one pair have been completed, and the pair
\* has a bridge stored start-first and a bridge stored end-first.
C17_Witness ==
  pc = "loop" /\ \E t \in DOMAIN predicted, u \in DOMAIN predicted :
    /\ StartCode(t) = EndCode(u) /\ EndCode(t) = StartCode(u)
    /\ StartCode(t) # EndCode(t)
    /\ \E i \in DOMAIN RowsOf(t) : RowsOf(t)[i][1] \in ZonesOf(StartCode(t))
    /\ \E j \in DOMAIN RowsOf(t) : RowsOf(t)[j][1] \in ZonesOf(EndCode(t))

\* The active bits of the pickup and of the dropoff borough segment of a
\* row whose borough segment starts at B.
PickupBits(v, B) == {c \in (B + 1)..(B + 6) : Val(v, c) # 0}
DropoffBits(v, B) == {c \in (B + 7)..(B + 12) : Val(v, c) # 0}

OneBitEach(v, B) ==
  Cardinality(PickupBits(v, B)) = 1 /\ Cardinality(DropoffBits(v, B)) = 1

\* Every flag combination, every trip between two zones and every zone a
\* bridge may start or end at, the zones in the borough of the rewritten
\* endpoint included: both legs have one active bit in each segment.
C18_EveryFlagCombination ==
  \A doh \in BOOLEAN, woh \in BOOLEAN, loc_id \in BOOLEAN :
    \A pu \in Zones, do \in Zones, zone \in Zones :
      /\ OneBitEach(MakeFeatures(doh, woh, loc_id, pu, do), BoroStartIndex(doh, woh))
      /\ OneBitEach(LegOne(doh, woh, loc_id, pu, do, zone), BoroStartIndex(doh, woh))
      /\ OneBitEach(LegTwo(doh, woh, loc_id, pu, do, zone), BoroStartIndex(doh, woh))

\* C18: every leg built from an input with exactly one active
\* pickup-borough bit and exactly one active dropoff-borough bit again has
\* exactly one of each, for every bridge and every flag combination,
\* including a bridge zone in the borough the endpoint had.
C18_LegsKeepOneBitEach ==
  /\ \A t \in DOMAIN predicted :
       \A rides \in {LoopRides(t)}, B \in {BoroStartIndex(args.doh, args.woh)} :
         OneBitEach(Features(t), B) =>
           \A i \in DOMAIN rides :
             OneBitEach(rides[i][3], B) /\ OneBitEach(rides[i][4], B)
  /\ C18_EveryFlagCombination

\* Legs have been built over two bridges from a row with one bit in each
\* segment, and the bits of the legs are not those of the row.
C18_Witness ==
  pc = "loop" /\ \E t \in DOMAIN predicted :
    LET B == BoroStartIndex(args.doh, args.woh)
    IN /\ OneBitEach(Features(t), B)
       /\ Len(CandidateRides(t)) = 2
       /\ DropoffBits(CandidateRides(t)[1][3], B) # DropoffBits(Features(t), B)
       /\ PickupBits(CandidateRides(t)[2][4], B) # PickupBits(Features(t), B)

\* --------------------------------------------------------------- the caches

\* Every entry of cache d is in d' with the same value.
EntriesKept(d, e) == \A k \in DOMAIN d : k \in DOMAIN e /\ e[k] = d[k]

\* The store has been queried once for each cached key and never again,
\* the bridge keys are sorted pairs, the cached sets are the store's, and
\* the codes of every completed trip have their full zone set cached.
CachesFilledOnMiss ==
  /\ DOMAIN bridge_queries = DOMAIN loaded_bridge_data
  /\ \A key \in DOMAIN bridge_queries :
       bridge_queries[key] = 1 /\ key = SortedPair(key[1], key[2])
  /\ DOMAIN boro_queries = DOMAIN boro_location_ids
  /\ \A b \in DOMAIN boro_queries :
       boro_queries[b] = 1 /\ boro_location_ids[b] = get_location_ids_in_boro(b)
  /\ \A code \in DOMAIN superboro_location_ids :
       /\ superboro_location_ids[code] = ZonesOf(code)
       /\ SUPERBORO_CODE[code] \subseteq DOMAIN boro_location_ids
  /\ \A t \in DOMAIN predicted :
       /\ {StartCode(t), EndCode(t)} \subseteq DOMAIN superboro_location_ids
       /\ SortedPair(StartCode(t), EndCode(t)) \in DOMAIN loaded_bridge_data

\* A step keeps every populated entry of the three caches, and a trip is
\* completed only with the zone sets of its two codes in place.
CacheEntriesPersist ==
  /\ EntriesKept(loaded_bridge_data, loaded_bridge_data')
  /\ EntriesKept(superboro_location_ids, superboro_location_ids')
  /\ EntriesKept(boro_location_ids, boro_location_ids')
  /\ \A key \in DOMAIN bridge_queries : bridge_queries'[key] = bridge_queries[key]
  /\ \A b \in DOMAIN boro_queries : boro_queries'[b] = boro_queries[b]
  /\ \A t \in TripIds :
       processed'[t] # processed[t] =>
         /\ superboro_location_ids'[StartCode(t)] = ZonesOf(StartCode(t))
         /\ superboro_location_ids'[EndCode(t)] = ZonesOf(EndCode(t))

\* C19: within one run the bridge cache and the region caches are filled
\* on miss only: the store is queried at most once per sorted superborough
\* pair and at most once per borough, a populated entry is never changed
\* or removed, and every superborough code of a processed trip has its full
\* zone set cached when its bridges are oriented.
C19_CachesFilledOnMissOnly ==
  []CachesFilledOnMiss /\ [][CacheEntriesPersist]_vars

\* More than six trips, several of every kind, have been completed on two
\* bridge queries and six borough queries.
C19_Witness ==
  /\ idx > 6
  /\ \A t \in TripIds : processed[t] > 1
  /\ Cardinality(DOMAIN bridge_queries) = 2
  /\ DOMAIN boro_queries = DOMAIN BOROUGHS
  /\ DOMAIN superboro_location_ids = {1, 2, 3}

\* ------------------------------------- two calls of the closure at a time

\* crossboro_preproc called by two threads on the caches of one
\* crossboro_preproc_setup, with no lock: each step below is one statement
\* of lines 210-251, and the steps of the two callers interleave.

\* The test always taken as a miss.
MissingAlways(d, k) == TRUE

\* `key not in cache` of lines 211, 214, 217, 223, 226.
Missing(d, k) == k \notin DOMAIN d

\* Everything but the caches and the callers.
run == << config, pc, error, models, idx, total_loss, dispatched, console,
          log_file, loss, processed, predicted >>

InCall(w) == workers[w].pc \notin {"idle", "returned", "RuntimeError"}

\* The superborough code the caller is filling, and its bridge key.
CodeOf(r) == IF r.side = "start" THEN StartCode(r.t) ELSE EndCode(r.t)
KeyOf(r) == SortedPair(StartCode(r.t), EndCode(r.t))

\* The list SUPERBORO_CODE[code] in iteration order.
BoroSeq(code) ==
  LET ids == SortedSeq({BOROUGHS[b] : b \in SUPERBORO_CODE[code]})
  IN [j \in DOMAIN ids |-> inverted_boro_dict[ids[j]]]

\* After the block of lines 214-221 the block of lines 223-230, and after
\* that the loop of line 233.
NextBlock(r) ==
  IF r.side = "start"
  THEN [r EXCEPT !.pc = "superboro_test", !.side = "end", !.todo = <<>>,
                 !.location_ids = {}]
  ELSE [r EXCEPT !.pc = "bridges", !.side = "", !.todo = <<>>,
                 !.location_ids = {}, !.i = 1]

\* Lines 180-210: the call begins, decodes its trip and builds the key.
Begin(w) ==
  /\ workers[w].pc = "idle"
  /\ \E t \in TripIds :
       workers' = [workers EXCEPT ![w] = [Idle EXCEPT !.pc = "bridge_test", !.t = t,
                                                     !.side = "start"]]
  /\ overlapped' = (overlapped \/ \E o \in Workers \ {w} : InCall(o))
  /\ UNCHANGED << run, caches >>

\* Line 211.
BridgeTest(w) ==
  /\ workers[w].pc = "bridge_test"
  /\ workers' = [workers EXCEPT ![w].pc =
                   IF Missing(loaded_bridge_data, KeyOf(workers[w]))
                   THEN "bridge_query" ELSE "superboro_test"]
  /\ UNCHANGED << run, caches, overlapped >>

\* Line 212.
BridgeQuery(w) ==
  /\ workers[w].pc = "bridge_query"
  /\ loaded_bridge_data' =
       Put(loaded_bridge_data, KeyOf(workers[w]),
           connecting_bridges(StartCode(workers[w].t), EndCode(workers[w].t)))
  /\ bridge_queries' = Put(bridge_queries, KeyOf(workers[w]),
                           Count(bridge_queries, KeyOf(workers[w])) + 1)
  /\ workers' = [workers EXCEPT ![w].pc = "superboro_test"]
  /\ UNCHANGED << run, superboro_location_ids, boro_location_ids, boro_queries,
                  overlapped >>

\* Lines 214-216 (223-225).
SuperboroTest(w) ==
  /\ workers[w].pc = "superboro_test"
  /\ workers' = [workers EXCEPT ![w] =
                   IF Missing(superboro_location_ids, CodeOf(workers[w]))
                   THEN [workers[w] EXCEPT !.pc = "boro_test",
                                           !.todo = BoroSeq(CodeOf(workers[w])),
                                           !.location_ids = {}]
                   ELSE NextBlock(workers[w])]
  /\ UNCHANGED << run, caches, overlapped >>

\* Lines 217, 220 (226, 229) for the next borough of the list.
BoroTest(w) ==
  /\ workers[w].pc = "boro_test"
  /\ workers[w].todo # <<>>
  /\ workers' = [workers EXCEPT ![w] =
                   IF Missing(boro_location_ids, Head(workers[w].todo))
                   THEN [workers[w] EXCEPT !.pc = "boro_query"]
                   ELSE [workers[w] EXCEPT
                           !.location_ids = @ \cup boro_location_ids[Head(workers[w].todo)],
                           !.todo = Tail(@)]]
  /\ UNCHANGED << run, caches, overlapped >>

\* Lines 218-220 (227-229).
BoroQuery(w) ==
  /\ workers[w].pc = "boro_query"
  /\ \E boro \in {Head(workers[w].todo)} :
       /\ boro_location_ids' = Put(boro_location_ids, boro, get_location_ids_in_boro(boro))
       /\ boro_queries' = Put(boro_queries, boro, Count(boro_queries, boro) + 1)
       /\ workers' = [workers EXCEPT ![w] =
                        [workers[w] EXCEPT
                           !.pc = "boro_test",
                           !.location_ids = @ \cup get_location_ids_in_boro(boro),
                           !.todo = Tail(@)]]
  /\ UNCHANGED << run, loaded_bridge_data, superboro_location_ids, bridge_queries,
                  overlapped >>

\* Line 221 (230), the list of boroughs exhausted.
SuperboroStore(w) ==
  /\ workers[w].pc = "boro_test"
  /\ workers[w].todo = <<>>
  /\ superboro_location_ids' =
       Put(superboro_location_ids, CodeOf(workers[w]), workers[w].location_ids)
  /\ workers' = [workers EXCEPT ![w] = NextBlock(workers[w])]
  /\ UNCHANGED << run, loaded_bridge_data, boro_location_ids, bridge_queries,
                  boro_queries, overlapped >>

\* Lines 233-247: the next bridge is oriented and the iteration over
\* boro_location_ids.items() begins, or the list of bridges is exhausted
\* and the call returns (line 270).
Bridges(w) ==
  /\ workers[w].pc = "bridges"
  /\ workers' = [workers EXCEPT ![w] =
                   IF workers[w].i > Len(loaded_bridge_data[KeyOf(workers[w])])
                   THEN [Idle EXCEPT !.pc = "returned", !.t = workers[w].t]
                   ELSE [workers[w] EXCEPT !.pc = "items",
                                           !.seen = DOMAIN boro_location_ids]]
  /\ UNCHANGED << run, caches, overlapped >>

\* Lines 247-268: the iteration runs to its end and the legs are built; a
\* dict that changed size since the iteration began makes the iterator
\* raise RuntimeError.
Items(w) ==
  /\ workers[w].pc = "items"
  /\ workers' = [workers EXCEPT ![w] =
                   IF Cardinality(DOMAIN boro_location_ids) # Cardinality(workers[w].seen)
                   THEN [Idle EXCEPT !.pc = "RuntimeError", !.t = workers[w].t]
                   ELSE [workers[w] EXCEPT !.pc = "bridges", !.i = @ + 1, !.seen = {}]]
  /\ UNCHANGED << run, caches, overlapped >>

\* The state in which evaluate enters its loop, with two callers.
InitConcurrent ==
  /\ SUPERBORO_CODE = SUPERBORO_FULL
  /\ bridges \in BridgeTables
  /\ args = [log |-> 0, verbose |-> 0, doh |-> TRUE, woh |-> TRUE, loc_id |-> TRUE]
  /\ pc = "loop"
  /\ error = <<>>
  /\ models = load_models
  /\ idx = 0
  /\ total_loss = 0
  /\ loaded_bridge_data = EmptyDict
  /\ superboro_location_ids = EmptyDict
  /\ boro_location_ids = EmptyDict
  /\ dispatched = {}
  /\ bridge_queries = EmptyDict
  /\ boro_queries = EmptyDict
  /\ console = <<>>
  /\ log_file = <<>>
  /\ loss = <<>>
  /\ processed = [t \in TripIds |-> 0]
  /\ predicted = EmptyDict
  /\ workers = [w \in Workers |-> Idle]
  /\ overlapped = FALSE

NextConcurrent ==
  \/ \E w \in Workers : Begin(w)
  \/ \E w \in Workers : BridgeTest(w)
  \/ \E w \in Workers : BridgeQuery(w)
  \/ \E w \in Workers : SuperboroTest(w)
  \/ \E w \in Workers : BoroTest(w)
  \/ \E w \in Workers : BoroQuery(w)
  \/ \E w \in Workers : SuperboroStore(w)
  \/ \E w \in Workers : Bridges(w)
  \/ \E w \in Workers : Items(w)

SpecConcurrent == InitConcurrent /\ [][NextConcurrent]_vars

\* The store was queried twice for one key.
QueriedTwice ==
  \/ \E key \in DOMAIN bridge_queries : bridge_queries[key] > 1
  \/ \E b \in DOMAIN boro_queries : boro_queries[b] > 1

\* A borough was inserted into boro_location_ids while a caller iterates
\* over it, or the iterator has raised for it.
InsertedUnderIteration ==
  \E w \in Workers :
    \/ workers[w].pc = "items" /\ workers[w].seen # DOMAIN boro_location_ids
    \/ workers[w].pc = "RuntimeError"

\* C20: with two trips processed at once on the unprotected caches a bad
\* state is reachable (a borough inserted while another caller iterates
\* the borough cache, or two misses on one key and two queries); when each
\* call runs to completion before the next begins there is none.  Every
\* bad state lies on a run in which a call began while another was under
\* way.
C20_RaceOnlyWhenCallsOverlap ==
  QueriedTwice \/ InsertedUnderIteration => overlapped

\* Two overlapping calls have queried the store twice for one borough, and
\* the iteration of one of them has raised on the other's insertion.
C20_Witness ==
  /\ overlapped
  /\ \E b \in DOMAIN boro_queries : boro_queries[b] = 2
  /\ \E w \in Workers : workers[w].pc = "RuntimeError"
  /\ \E w \in Workers : workers[w].pc = "returned"

====
